---- MODULE Spec2Model ----
(***************************************************************************)
(* ClickHouseFdw (src/wrappers/src/fdw/clickhouse_fdw/clickhouse_fdw.rs):  *)
(* the foreign data wrapper as a state machine.  The fields of the struct  *)
(* are the state; every method of the ForeignDataWrapper impl is one       *)
(* action.  The query engine may call the methods in any order, so Next    *)
(* is the free choice of one call.  What a call hands back to its caller  *)
(* (return value, errors reported through elog / report_error, requests    *)
(* sent through the ClientHandle) is recorded in op, arg, ret, errs, reqs. *)
(* elog and report_error are modelled as the handlers are written around   *)
(* them: they report and the handler goes on with its next statement.      *)
(***************************************************************************)
EXTENDS Integers, Sequences, FiniteSets, TLC

VARIABLES
    client,      \* Option<ClientHandle>: TRUE = Some(handle), FALSE = None
    table,       \* String
    rowid_col,   \* String
    scan_blk,    \* Option<Block>
    row_idx,     \* usize
    op,          \* name of the last method called
    arg,         \* its arguments
    ret,         \* its return value
    errs,        \* errors it reported, in order
    reqs,        \* remote requests it issued, in order, each with the reply
    sized,       \* a get_rel_size has fetched a result and no end_scan followed
    iter_calls,  \* iter_scan calls since the last begin_scan (-1: none open)
    scan_errs    \* type errors reported since the last begin_scan

vars == <<client, table, rowid_col, scan_blk, row_idx,
          op, arg, ret, errs, reqs, sized, iter_calls, scan_errs>>

\* what the caller has seen of the scan in progress
seen == <<sized, iter_calls, scan_errs>>

fdw == <<client, table, rowid_col, scan_blk, row_idx>>

-----------------------------------------------------------------------------
(* Bounds *)

MaxRows == 2

MaxCalls == MaxRows + 2

-----------------------------------------------------------------------------
(* Option<T> *)

None == <<>>

Some(x) == <<x>>

unwrap(o) == o[1]

-----------------------------------------------------------------------------
(* Wire values (clickhouse_rs SqlType / Value) and host cells (Cell) *)

Wire(ty, v) == [ty |-> ty, v |-> v]

Cell(tag, v) == [tag |-> tag, v |-> v]

Supported(ty) == ty \in {"UInt8", "Float64", "Int64", "String"}

ToHostCell_one(w) ==
    CASE w.ty = "UInt8"   -> Cell("Bool", w.v = 1)
      [] w.ty = "Float64" -> Cell("F64", w.v)
      [] w.ty = "Int64"   -> Cell("I64", w.v)
      [] w.ty = "String"  -> Cell("String", w.v)

\* the match of iter_scan on sql_type, for the four arms that build a Cell
ToHostCell(w) ==
    CASE w.ty = "UInt8"   -> Cell("Bool", w.v # 0)
      [] w.ty = "Float64" -> Cell("F64", w.v)
      [] w.ty = "Int64"   -> Cell("I64", w.v)
      [] w.ty = "String"  -> Cell("String", w.v)

Writable(tag) == tag \in {"Bool", "F64", "I64", "String"}

\* the match of insert on the cell, for the four arms that push a value
ToWireValue(c) ==
    CASE c.tag = "Bool"   -> Wire("UInt8", IF c.v THEN 1 ELSE 0)
      [] c.tag = "F64"    -> Wire("Float64", c.v)
      [] c.tag = "I64"    -> Wire("Int64", c.v)
      [] c.tag = "String" -> Wire("String", c.v)

\* Display of a Cell, as format!("{}", cell) embeds it in a statement
CellText(c) ==
    CASE c.tag = "Bool"   -> IF c.v THEN "true" ELSE "false"
      [] c.tag = "String" -> "'" \o c.v \o "'"
      [] c.tag = "F64"    -> c.v
      [] OTHER            -> ToString(c.v)

-----------------------------------------------------------------------------
(* Inputs *)

SeqsUpTo(S, n) == UNION {[1..k -> S] : k \in 0..n}

OptionSets ==
    { [table |-> "orders", rowid_column |-> "id"],
      [table |-> "people", rowid_column |-> "name"] }

ColumnLists == { <<"id">>, <<"flag", "name">> }

\* the inputs below are listed as sequences and chosen by position
QualLists ==
    << <<>>,
       << [field |-> "age", operator |-> ">", value |-> Cell("I64", 30)] >>,
       << [field |-> "age", operator |-> ">", value |-> Cell("I64", 30)],
          [field |-> "name", operator |-> "=", value |-> Cell("String", "a")] >> >>

\* rows the remote store may return for a query of n columns; F64 values are
\* written as their decimal text
RowPool(n) ==
    IF n = 1
    THEN << <<Wire("Int64", 42)>>, <<Wire("Date", "d")>> >>
    ELSE << <<Wire("UInt8", 2), Wire("Float64", "2.5")>>,
            <<Wire("Int64", 7), Wire("String", "a")>>,
            <<Wire("UInt8", 0), Wire("Date", "d")>> >>

Blocks(columns) ==
    LET pool == RowPool(Len(columns))
    IN  { [names |-> columns, rows |-> [i \in DOMAIN ix |-> pool[ix[i]]]] :
            ix \in SeqsUpTo(DOMAIN pool, MaxRows) }

row_count(block) == Len(block.rows)

column_count(block) == Len(block.names)

\* Row: ordered (column name, Option<Cell>) pairs
Col(name, cell) == [col |-> name, cell |-> cell]

SrcRows ==
    << << Col("id", Some(Cell("I64", 1))), Col("name", Some(Cell("String", "a"))) >>,
       << Col("id", Some(Cell("I64", 1))), Col("name", None) >>,
       << Col("flag", Some(Cell("Bool", TRUE))), Col("score", Some(Cell("F64", "2.5"))) >>,
       << Col("id", Some(Cell("I64", 1))), Col("day", Some(Cell("I32", 5))) >> >>

RowIds == << Cell("I64", 42), Cell("String", "k") >>

-----------------------------------------------------------------------------
(* deparse: the query text as its sequence of words *)

RECURSIVE Join(_, _)
Join(parts, sep) ==
    IF parts = <<>> THEN <<>>
    ELSE IF Len(parts) = 1 THEN parts[1]
    ELSE parts[1] \o <<sep>> \o Join(Tail(parts), sep)

QualDeparse(q) == <<q.field, q.operator, CellText(q.value)>>

deparse_always_where(quals, columns, options) ==
    <<"select">> \o Join([i \in 1..Len(columns) |-> <<columns[i]>>], ", ")
        \o <<"from", options.table, "where">>
        \o Join([i \in 1..Len(quals) |-> QualDeparse(quals[i])], "and")

deparse(quals, columns, options) ==
    LET tgts == Join([i \in 1..Len(columns) |-> <<columns[i]>>], ", ")
        tbl == options.table
    IN  IF quals = <<>>
        THEN <<"select">> \o tgts \o <<"from", tbl>>
        ELSE LET cond == Join([i \in 1..Len(quals) |-> QualDeparse(quals[i])], "and")
             IN  <<"select">> \o tgts \o <<"from", tbl, "where">> \o cond

-----------------------------------------------------------------------------
(* ClickHouseFdw::new *)

Init ==
    /\ client \in BOOLEAN
    /\ table = ""
    /\ rowid_col = ""
    /\ scan_blk = None
    /\ row_idx = 0
    /\ op = "new"
    /\ arg = <<>>
    /\ ret = <<>>
    /\ errs = IF client THEN <<>> ELSE <<"connection failed">>
    /\ reqs = <<>>
    /\ sized = FALSE
    /\ iter_calls = -1
    /\ scan_errs = 0

-----------------------------------------------------------------------------
(* Scan *)

\* a query sent through the handle, with the block fetch_all gave back
Query(sql, reply) == [kind |-> "query", sql |-> sql, ok |-> reply # None, reply |-> reply]

rel_size_no_width(block) == <<row_count(block), column_count(block)>>

\* the estimate returned for a fetched block
rel_size(block) == <<row_count(block), column_count(block) * 8>>

get_rel_size ==
    \E q \in DOMAIN QualLists, columns \in ColumnLists, options \in OptionSets :
      LET quals == QualLists[q] IN
      /\ op' = "get_rel_size"
      /\ arg' = [quals |-> quals, columns |-> columns, options |-> options]
      /\ iter_calls' = -1
      /\ scan_errs' = 0
      /\ UNCHANGED <<client, row_idx>>
      /\ IF client
         THEN /\ table' = options.table
              /\ rowid_col' = options.rowid_column
              /\ LET sql == deparse(quals, columns, options)
                 IN  \/ \E block \in Blocks(columns) :
                          /\ reqs' = <<Query(sql, Some(block))>>
                          /\ scan_blk' = Some(block)
                          /\ ret' = rel_size(block)
                          /\ errs' = <<>>
                          /\ sized' = TRUE
                     \/ /\ reqs' = <<Query(sql, None)>>
                        /\ errs' = <<"query failed">>
                        /\ ret' = <<0, 0>>
                        /\ UNCHANGED <<scan_blk, sized>>
         ELSE /\ ret' = <<0, 0>>
              /\ reqs' = <<>>
              /\ errs' = <<>>
              /\ UNCHANGED <<table, rowid_col, scan_blk, sized>>

begin_scan_keep ==
    /\ row_idx' = row_idx
    /\ op' = "begin_scan"
    /\ arg' = <<>>
    /\ ret' = <<>>
    /\ errs' = <<>>
    /\ reqs' = <<>>
    /\ iter_calls' = 0
    /\ scan_errs' = 0
    /\ UNCHANGED <<client, table, rowid_col, scan_blk, sized>>

begin_scan ==
    /\ row_idx' = 0
    /\ op' = "begin_scan"
    /\ arg' = <<>>
    /\ ret' = <<>>
    /\ errs' = <<>>
    /\ reqs' = <<>>
    /\ iter_calls' = 0
    /\ scan_errs' = 0
    /\ UNCHANGED <<client, table, rowid_col, scan_blk, sized>>

\* Iterator::nth on block.rows(): the element at 0-based position n
nth(rows, n) == IF n < Len(rows) THEN Some(rows[n + 1]) ELSE None

\* the columns of a row whose wire type has no arm in the match
BadCols(row) == {i \in 1..Len(row) : ~Supported(row[i].ty)}

HostRow_first(names, row) ==
    [i \in 1..1 |-> Col(names[i], Some(ToHostCell(row[i])))]

\* the Row built by the loop over the columns when every cell converts
HostRow(names, row) ==
    [i \in 1..Len(names) |-> Col(names[i], Some(ToHostCell(row[i])))]

advance_stuck(idx) == idx

\* the cursor after a row was returned
advance(idx) == idx + 1

type_error_skip(idx) ==
    [ret |-> None, errs |-> <<"data type is not supported">>, idx |-> idx + 1]

\* the arm of the match for any other wire type: report, return None
type_error(idx) ==
    [ret |-> None, errs |-> <<"data type is not supported">>, idx |-> idx]

\* what one iter_scan call does with the held block and cursor:
\* the value returned, the errors reported, and the cursor afterwards
iter_step(blk, idx) ==
    IF blk = None
    THEN [ret |-> None, errs |-> <<>>, idx |-> idx]
    ELSE LET block == unwrap(blk)
             row == nth(block.rows, idx)
         IN  IF row = None
             THEN [ret |-> None, errs |-> <<>>, idx |-> idx]
             ELSE IF BadCols(unwrap(row)) \cap 1..column_count(block) # {}
                  THEN type_error(idx)
                  ELSE [ret |-> Some(HostRow(block.names, unwrap(row))),
                        errs |-> <<>>,
                        idx |-> advance(idx)]

iter_scan ==
    /\ iter_calls < MaxCalls
    /\ LET r == iter_step(scan_blk, row_idx)
       IN  /\ ret' = r.ret
           /\ errs' = r.errs
           /\ row_idx' = r.idx
           /\ scan_errs' = IF iter_calls >= 0 THEN scan_errs + Len(r.errs) ELSE 0
    /\ iter_calls' = IF iter_calls >= 0 THEN iter_calls + 1 ELSE -1
    /\ op' = "iter_scan"
    /\ arg' = <<>>
    /\ reqs' = <<>>
    /\ UNCHANGED <<client, table, rowid_col, scan_blk, sized>>

take_nothing(o) == o

\* what Option::take leaves behind
take(o) == None

end_scan ==
    /\ scan_blk' = take(scan_blk)
    /\ op' = "end_scan"
    /\ arg' = <<>>
    /\ ret' = <<>>
    /\ errs' = <<>>
    /\ reqs' = <<>>
    /\ sized' = FALSE
    /\ iter_calls' = -1
    /\ scan_errs' = 0
    /\ UNCHANGED <<client, table, rowid_col, row_idx>>

-----------------------------------------------------------------------------
(* Modify *)

begin_modify ==
    \E options \in OptionSets :
      /\ table' = options.table
      /\ rowid_col' = options.rowid_column
      /\ op' = "begin_modify"
      /\ arg' = [options |-> options]
      /\ ret' = <<>>
      /\ errs' = <<>>
      /\ reqs' = <<>>
      /\ UNCHANGED <<client, scan_blk, row_idx, seen>>

\* the cells of src the loop of insert pushes: present, with a Value arm
Pushed(c) == c.cell # None /\ Writable(unwrap(c.cell).tag)

\* the cells of src the loop of insert reports: present, without a Value arm
Reported(c) == c.cell # None /\ ~Writable(unwrap(c.cell).tag)

\* the Vec of (column name, Value) the loop of insert builds
insert_row(src) ==
    LET kept == SelectSeq(src, Pushed)
    IN  [i \in 1..Len(kept) |->
            [col |-> kept[i].col, value |-> ToWireValue(unwrap(kept[i].cell))]]

\* the errors the loop of insert reports, one per cell it does not push
insert_errs(src) ==
    LET bad == SelectSeq(src, Reported)
    IN  [i \in 1..Len(bad) |-> "field type not supported"]

Insert(tbl, block, ok) == [kind |-> "insert", table |-> tbl, block |-> block, ok |-> ok]

Execute(sql, ok) == [kind |-> "execute", sql |-> sql, ok |-> ok]

insert ==
    \E s \in DOMAIN SrcRows :
      LET src == SrcRows[s] IN
      /\ op' = "insert"
      /\ arg' = [src |-> src]
      /\ ret' = <<>>
      /\ IF client
         THEN \E ok \in BOOLEAN :
                /\ reqs' = <<Insert(table, <<insert_row(src)>>, ok)>>
                /\ errs' = insert_errs(src)
                             \o (IF ok THEN <<>> ELSE <<"insert failed">>)
         ELSE /\ reqs' = <<>>
              /\ errs' = <<>>
      /\ UNCHANGED <<fdw, seen>>

update_sets_omit(new_row, idcol) ==
    LET cols == SelectSeq(new_row, LAMBDA c : c.col # idcol /\ c.cell # None)
    IN  [i \in 1..Len(cols) |->
            <<cols[i].col, "=", CellText(unwrap(cols[i].cell))>>]

\* the assignments of the SET clause, one per column other than rowid_col
update_sets(new_row, idcol) ==
    LET cols == SelectSeq(new_row, LAMBDA c : c.col # idcol)
    IN  [i \in 1..Len(cols) |->
            IF cols[i].cell # None
            THEN <<cols[i].col, "=", CellText(unwrap(cols[i].cell))>>
            ELSE <<cols[i].col, "=", "null">>]

update_sql(tbl, idcol, rowid, new_row) ==
    <<"alter table", tbl, "update">> \o Join(update_sets(new_row, idcol), ", ")
        \o <<"where", idcol, "=", CellText(rowid)>>

update ==
    \E k \in DOMAIN RowIds, s \in DOMAIN SrcRows :
      LET rowid == RowIds[k]
          new_row == SrcRows[s] IN
      /\ op' = "update"
      /\ arg' = [rowid |-> rowid, new_row |-> new_row]
      /\ ret' = <<>>
      /\ IF client
         THEN \E ok \in BOOLEAN :
                /\ reqs' = <<Execute(update_sql(table, rowid_col, rowid, new_row), ok)>>
                /\ errs' = IF ok THEN <<>> ELSE <<"update failed">>
         ELSE /\ reqs' = <<>>
              /\ errs' = <<>>
      /\ UNCHANGED <<fdw, seen>>

end_modify ==
    /\ op' = "end_modify"
    /\ arg' = <<>>
    /\ ret' = <<>>
    /\ errs' = <<>>
    /\ reqs' = <<>>
    /\ UNCHANGED <<fdw, seen>>

delete_sql_by_table(tbl, idcol, rowid) ==
    <<"alter table", tbl, "delete where", tbl, "=", CellText(rowid)>>

delete_sql(tbl, idcol, rowid) ==
    <<"alter table", tbl, "delete where", idcol, "=", CellText(rowid)>>

delete_unguarded ==
    \E k \in DOMAIN RowIds, ok \in BOOLEAN :
      /\ op' = "delete"
      /\ arg' = [rowid |-> RowIds[k]]
      /\ ret' = <<>>
      /\ reqs' = <<Execute(delete_sql(table, rowid_col, RowIds[k]), ok)>>
      /\ errs' = IF ok THEN <<>> ELSE <<"delete failed">>
      /\ UNCHANGED <<fdw, seen>>

delete ==
    \E k \in DOMAIN RowIds :
      LET rowid == RowIds[k] IN
      /\ op' = "delete"
      /\ arg' = [rowid |-> rowid]
      /\ ret' = <<>>
      /\ IF client
         THEN \E ok \in BOOLEAN :
                /\ reqs' = <<Execute(delete_sql(table, rowid_col, rowid), ok)>>
                /\ errs' = IF ok THEN <<>> ELSE <<"delete failed">>
         ELSE /\ reqs' = <<>>
              /\ errs' = <<>>
      /\ UNCHANGED <<fdw, seen>>

-----------------------------------------------------------------------------

Next ==
    \/ get_rel_size
    \/ begin_scan
    \/ iter_scan
    \/ end_scan
    \/ begin_modify
    \/ insert
    \/ update
    \/ end_modify
    \/ delete

Spec == Init /\ [][Next]_vars

-----------------------------------------------------------------------------
(* Properties of the scan *)

held == unwrap(scan_blk)

\* rows of a block, by 1-based position, with a cell of an unsupported type
BadRows(block) == {r \in 1..row_count(block) : BadCols(block.rows[r]) # {}}

FirstBadRow(block) == CHOOSE r \in BadRows(block) : \A q \in BadRows(block) : r <= q

\* the n-th iter_scan call since begin_scan has just returned, on a held block
NthCall(n) == op = "iter_scan" /\ iter_calls = n /\ scan_blk # None

\* C1: on a result set whose cells all have supported types, the i-th
\* iter_scan call after begin_scan returns row i for i up to the row count,
\* and every later call returns None; none of these calls reports an error.
C1_RowsThenEndOfData ==
    \A n \in 1..MaxCalls :
        (NthCall(n) /\ BadRows(held) = {}) =>
            /\ errs = <<>>
            /\ ret = IF n <= row_count(held)
                     THEN Some(HostRow(held.names, held.rows[n]))
                     ELSE None

C1_Witness ==
    /\ scan_blk # None
    /\ NthCall(row_count(held) + 2)
    /\ row_count(held) >= 2
    /\ BadRows(held) = {}
    /\ ret = None

\* C2: whenever a result set is held, the cursor is at most its row count.
C2_CursorWithinRows ==
    scan_blk # None => row_idx <= row_count(held)

\* C3: when row k is the first with a cell of an unsupported type, the calls
\* after begin_scan return the rows before k whole, and the call that reaches
\* row k and every later call return None: no partial row, no row from k on.
C3_TypeErrorEndsScan ==
    \A n \in 1..MaxCalls :
        (NthCall(n) /\ BadRows(held) # {}) =>
            ret = IF n < FirstBadRow(held)
                  THEN Some(HostRow(held.names, held.rows[n]))
                  ELSE None

C3_Witness ==
    /\ NthCall(3)
    /\ BadRows(held) = {1}
    /\ 1 \notin BadCols(held.rows[1])
    /\ row_count(held) = 2
    /\ ret = None

\* C4: in a scan of a result set with a cell of an unsupported type, exactly
\* one type error is reported between begin_scan and end_scan, however many
\* iter_scan calls follow the failing one.
C4_ExactlyOneTypeError ==
    /\ scan_errs <= 1
    /\ \A n \in 1..MaxCalls :
         (NthCall(n) /\ BadRows(held) # {} /\ n >= FirstBadRow(held)) => scan_errs = 1

\* C7: from end_scan until the next get_rel_size that fetches a result, no
\* result set is held and every iter_scan call returns None, whether or not a
\* begin_scan came in between.
C7_NothingAfterEndScan ==
    /\ op = "end_scan" => ~sized
    /\ ~sized => /\ scan_blk = None
                 /\ op = "iter_scan" => ret = None /\ errs = <<>>

C7_Witness ==
    /\ ~sized
    /\ op = "iter_scan"
    /\ iter_calls >= 1
    /\ row_idx = 0
    /\ table # ""
    /\ ret = None

\* C8: get_rel_size returns (0, 0) without a Session; with a Session and a
\* query that succeeds it returns (row count, column count * 8) of the block
\* fetched and holds exactly that block.
C8_RelSize ==
    op = "get_rel_size" =>
        IF ~client
        THEN ret = <<0, 0>> /\ reqs = <<>>
        ELSE /\ Len(reqs) = 1
             /\ reqs[1].ok =>
                  /\ scan_blk = reqs[1].reply
                  /\ ret = << Len(unwrap(reqs[1].reply).rows),
                              Len(arg.columns) * 8 >>

C8_Witness ==
    /\ op = "get_rel_size"
    /\ client
    /\ reqs[1].ok
    /\ ret = <<2, 16>>

-----------------------------------------------------------------------------
(* Properties of the binding and of the statements *)

\* C5: after every get_rel_size and every begin_modify the held table and
\* rowid_col are the 'table' and 'rowid_column' of that call's options.
C5_BindingFromOptions ==
    op \in {"get_rel_size", "begin_modify"} =>
        /\ table = arg.options.table
        /\ rowid_col = arg.options.rowid_column

\* C6: after end_modify the table and rowid_col resolved by begin_modify are
\* no longer held.
C6_EndModifyClearsBinding ==
    op = "end_modify" => table = "" /\ rowid_col = ""

\* C9: get_rel_size, insert, update and delete issue at most one remote
\* request per call, and when the Session answers it with an error exactly one
\* error is reported by that call.
C9_OneRequestOneError ==
    op \in {"get_rel_size", "insert", "update", "delete"} =>
        /\ Len(reqs) <= 1
        /\ (reqs # <<>> /\ ~reqs[1].ok) => Len(errs) = 1

Present(c) == c.cell # None

\* C10: with a Session, insert submits one single-row batch to the bound
\* table whose columns are the columns of src with a present cell, in the
\* order of src, each with the wire value of its cell.
C10_InsertBatchColumns ==
    (op = "insert" /\ client) =>
        /\ Len(reqs) = 1
        /\ reqs[1].kind = "insert"
        /\ reqs[1].table = table
        /\ Len(reqs[1].block) = 1
        /\ LET sent == reqs[1].block[1]
               want == SelectSeq(arg.src, Present)
           IN  /\ Len(sent) = Len(want)
               /\ \A i \in 1..Len(sent) :
                    /\ sent[i].col = want[i].col
                    /\ Writable(unwrap(want[i].cell).tag)
                    /\ sent[i].value = ToWireValue(unwrap(want[i].cell))

\* the columns of a row other than the row identifier column
Others(row, idcol) == SelectSeq(row, LAMBDA c : c.col # idcol)

\* C11: with a Session, update issues one statement against the bound table
\* whose SET clause has one assignment per column of new_row other than
\* rowid_col, in the order of new_row, 'col = literal' for a present cell and
\* 'col = null' for an absent one, and whose filter is rowid_col = rowid.
C11_UpdateStatement ==
    (op = "update" /\ client) =>
        /\ Len(reqs) = 1
        /\ reqs[1].kind = "execute"
        /\ LET sql == reqs[1].sql
               cols == Others(arg.new_row, rowid_col)
               n == Len(cols)
               setlen == IF n = 0 THEN 0 ELSE 4 * n - 1
           IN  /\ Len(sql) = 3 + setlen + 4
               /\ SubSeq(sql, 1, 3) = <<"alter table", table, "update">>
               /\ \A i \in 1..n :
                    /\ sql[4 * i] = cols[i].col
                    /\ sql[4 * i] # rowid_col
                    /\ sql[4 * i + 1] = "="
                    /\ sql[4 * i + 2] = IF cols[i].cell = None
                                        THEN "null"
                                        ELSE CellText(unwrap(cols[i].cell))
                    /\ i < n => sql[4 * i + 3] = ", "
               /\ SubSeq(sql, 4 + setlen, 7 + setlen)
                    = <<"where", rowid_col, "=", CellText(arg.rowid)>>

C11_Witness ==
    /\ op = "update"
    /\ client
    /\ rowid_col = "id"
    /\ Len(arg.new_row) = 2
    /\ arg.new_row[2].cell = None
    /\ reqs[1].sql = <<"alter table", "orders", "update", "name", "=", "null",
                       "where", "id", "=", "42">>

\* a call of insert, update, delete or end_modify
ModifyCall(o) == o \in {"insert", "update", "delete", "end_modify"}

\* C12: with a Session, delete issues exactly one delete statement on the bound
\* table filtered by rowid_col = rowid literal; begin_modify binds table and
\* rowid_col, the calls of a modify sequence keep them, and delete changes
\* neither the binding nor the scan state.
C12_DeleteStatement ==
    /\ [](op = "begin_modify" =>
            table = arg.options.table /\ rowid_col = arg.options.rowid_column)
    /\ []((op = "delete" /\ client) =>
            /\ Len(reqs) = 1
            /\ reqs[1].kind = "execute"
            /\ reqs[1].sql = <<"alter table", table, "delete where",
                               rowid_col, "=", CellText(arg.rowid)>>)
    /\ [][ModifyCall(op') =>
            UNCHANGED <<table, rowid_col, scan_blk, row_idx>>]_vars

C12_Witness ==
    /\ op = "delete"
    /\ client
    /\ reqs = <<Execute(<<"alter table", "orders", "delete where", "id", "=", "42">>,
                        TRUE)>>

\* C13: insert of a Row with a present cell of a variant without a wire
\* counterpart reports an error and submits no insert to the Session.
C13_UnsupportedCellStopsInsert ==
    (op = "insert" /\ client /\ SelectSeq(arg.src, Reported) # <<>>) =>
        /\ errs # <<>>
        /\ reqs = <<>>

\* equality of two optional cells, variant first
SameCell(a, b) ==
    /\ Len(a) = Len(b)
    /\ a # None => (a[1].tag = b[1].tag /\ a[1].v = b[1].v)

\* C14: a get_rel_size call with a Session issues exactly one read query and
\* no call of any other method issues one; begin_scan, iter_scan, end_scan,
\* begin_modify and end_modify issue no request at all; begin_scan and
\* iter_scan leave the held result set as it is, and every row iter_scan
\* returns is a row of the held result set.
C14_NoRequeryMidScan ==
    /\ []((op = "get_rel_size" /\ client) =>
            Len(reqs) = 1 /\ reqs[1].kind = "query")
    /\ [](op # "get_rel_size" =>
            \A i \in 1..Len(reqs) : reqs[i].kind # "query")
    /\ [](op \in {"begin_scan", "iter_scan", "end_scan", "begin_modify", "end_modify"} =>
            reqs = <<>>)
    /\ []((op = "iter_scan" /\ ret # None) =>
            /\ scan_blk # None
            /\ \E r \in 1..row_count(held) :
                 /\ Len(unwrap(ret)) = column_count(held)
                 /\ \A i \in 1..column_count(held) :
                      /\ unwrap(ret)[i].col = held.names[i]
                      /\ Supported(held.rows[r][i].ty)
                      /\ SameCell(unwrap(ret)[i].cell,
                                  Some(ToHostCell(held.rows[r][i]))))
    /\ [][op' \in {"begin_scan", "iter_scan"} => scan_blk' = scan_blk]_vars

C14_Witness ==
    /\ op = "iter_scan"
    /\ sized
    /\ iter_calls = 2
    /\ ret # None
    /\ column_count(held) = 2

\* equality of two optional rows, column by column, variant before value
SameRow(a, b) ==
    /\ Len(a) = Len(b)
    /\ a # None =>
         /\ Len(a[1]) = Len(b[1])
         /\ \A i \in 1..Len(a[1]) :
              /\ a[1][i].col = b[1][i].col
              /\ SameCell(a[1][i].cell, b[1][i].cell)

\* equality of two optional blocks, cell by cell, wire type before value
SameBlock(a, b) ==
    /\ Len(a) = Len(b)
    /\ a # None =>
         /\ a[1].names = b[1].names
         /\ Len(a[1].rows) = Len(b[1].rows)
         /\ \A r \in 1..Len(a[1].rows) : \A i \in 1..Len(a[1].rows[r]) :
              /\ a[1].rows[r][i].ty = b[1].rows[r][i].ty
              /\ a[1].rows[r][i].v = b[1].rows[r][i].v

\* rows 1..n of a block all convert
GoodUpTo(block, n) == \A r \in BadRows(block) : r > n

\* C17: begin_scan sets the cursor to 0 and changes no other field; a second
\* begin_scan right after the first changes nothing; and after any begin_scan,
\* also one in the middle of a scan, the n-th iter_scan call returns row n of
\* the held result set again.
C17_BeginScanResets ==
    /\ [][op' = "begin_scan" =>
            /\ row_idx' = 0
            /\ UNCHANGED <<client, table, rowid_col>>
            /\ SameBlock(scan_blk', scan_blk)]_vars
    /\ [][(op = "begin_scan" /\ op' = "begin_scan") =>
            row_idx' = row_idx /\ SameBlock(scan_blk', scan_blk)]_vars
    /\ [](\A n \in 1..MaxRows :
            (NthCall(n) /\ n <= row_count(held) /\ GoodUpTo(held, n)) =>
                /\ SameRow(ret, Some(HostRow(held.names, held.rows[n])))
                /\ row_idx = n)

C17_Witness ==
    /\ op = "begin_scan"
    /\ row_idx = 0
    /\ scan_blk # None
    /\ row_count(held) = 2
    /\ sized

\* a get_rel_size call that fetched nothing: no Session, or the query failed
FailedSize == op = "get_rel_size" /\ (reqs = <<>> \/ ~reqs[1].ok)

\* C18: after a get_rel_size whose query fails, or that finds no Session, the
\* next iter_scan returns None, whatever was called before the failed call.
C18_NoRowsAfterFailedSize ==
    [][(FailedSize /\ op' = "iter_scan") => ret' = None]_vars

\* C19: the held result set changes only when get_rel_size fetches a block
\* (to that block) or end_scan drops it; iter_scan changes only the cursor, by
\* exactly 1 when it returns a row and not at all when it returns None;
\* begin_modify, insert, update, delete and end_modify change neither.
C19_ResultSetFrame ==
    [][/\ ~SameBlock(scan_blk', scan_blk) =>
            \/ /\ op' = "get_rel_size"
               /\ reqs' # <<>>
               /\ reqs'[1].ok
               /\ SameBlock(scan_blk', reqs'[1].reply)
            \/ op' = "end_scan" /\ scan_blk' = None
       /\ op' = "iter_scan" =>
            /\ SameBlock(scan_blk', scan_blk)
            /\ UNCHANGED <<client, table, rowid_col>>
            /\ row_idx' = IF ret' # None THEN row_idx + 1 ELSE row_idx
       /\ (op' = "begin_modify" \/ ModifyCall(op')) =>
            /\ SameBlock(scan_blk', scan_blk)
            /\ row_idx' = row_idx]_vars

C19_Witness ==
    /\ op = "iter_scan"
    /\ ret # None
    /\ row_idx = 2
    /\ iter_calls = -1

\* C20: the Session handle never changes after construction; without one no
\* call issues a remote request, get_rel_size returns (0, 0), and no result
\* set is ever held.
C20_NoSessionNoRequest ==
    /\ [][client' = client]_vars
    /\ [](~client =>
            /\ reqs = <<>>
            /\ scan_blk = None
            /\ ~sized
            /\ op = "get_rel_size" => ret = <<0, 0>>)

C20_Witness ==
    /\ ~client
    /\ op = "delete"
    /\ table = "orders"
    /\ reqs = <<>>

-----------------------------------------------------------------------------
(* deparse and the two conversions on their own: the inputs are drawn in the  *)
(* initial state and each step applies one of the functions to its input.    *)

MaxQuals == 2

MaxCols == 2

MaxAbs == 2

U8Max == 255

QualPool ==
    << [field |-> "age", operator |-> ">", value |-> Cell("I64", 30)],
       [field |-> "name", operator |-> "=", value |-> Cell("String", "a")],
       [field |-> "ok", operator |-> "=", value |-> Cell("Bool", TRUE)] >>

ColumnPool == {"name", "age"}

\* the cells insert has a Value arm for
CellPool(i) ==
    CASE i = 1 -> {Cell("Bool", b) : b \in BOOLEAN}
      [] i = 2 -> {Cell("I64", n) : n \in -MaxAbs..MaxAbs}
      [] i = 3 -> {Cell("F64", x) : x \in {"2.5", "-0.0", "1e308"}}
      [] i = 4 -> {Cell("String", x) : x \in {"", "a", "it's"}}

Untouched ==
    /\ client = FALSE
    /\ table = ""
    /\ rowid_col = ""
    /\ scan_blk = None
    /\ row_idx = 0
    /\ sized = FALSE
    /\ iter_calls = -1
    /\ scan_errs = 0

PureInit ==
    /\ Untouched
    /\ op = "input"
    /\ ret = <<>>
    /\ errs = <<>>
    /\ reqs = <<>>
    /\ \/ \E q \in SeqsUpTo(DOMAIN QualPool, MaxQuals),
             columns \in SeqsUpTo(ColumnPool, MaxCols),
             options \in OptionSets :
            arg = [fn |-> "deparse",
                   quals |-> [i \in DOMAIN q |-> QualPool[q[i]]],
                   columns |-> columns,
                   options |-> options]
       \/ \E i \in 1..4 : \E c \in CellPool(i) :
            arg = [fn |-> "write", cell |-> c]
       \/ \E n \in 0..U8Max :
            arg = [fn |-> "read", wire |-> Wire("UInt8", n)]

\* deparse applied to the input
apply_deparse ==
    /\ op = "input"
    /\ arg.fn = "deparse"
    /\ op' = "deparse"
    /\ ret' = deparse(arg.quals, arg.columns, arg.options)
    /\ UNCHANGED <<fdw, seen, arg, errs, reqs>>

\* a cell written as insert writes it, and the value read back as iter_scan
\* reads it; reqs keeps the wire value
write_read ==
    /\ op = "input"
    /\ arg.fn = "write"
    /\ op' = "write_read"
    /\ reqs' = <<ToWireValue(arg.cell)>>
    /\ ret' = Some(ToHostCell(ToWireValue(arg.cell)))
    /\ UNCHANGED <<fdw, seen, arg, errs>>

\* a UInt8 wire value read as iter_scan reads it
read_wire ==
    /\ op = "input"
    /\ arg.fn = "read"
    /\ op' = "read"
    /\ ret' = Some(ToHostCell(arg.wire))
    /\ UNCHANGED <<fdw, seen, arg, errs, reqs>>

PureNext ==
    \/ apply_deparse
    \/ write_read
    \/ read_wire

PureSpec == PureInit /\ [][PureNext]_vars

\* C15: deparse renders 'select', the columns in the caller's order joined by
\* ', ', 'from' and the table; nothing follows with zero quals, and with n > 0
\* quals 'where' follows with the n rendered quals in order and exactly n - 1
\* 'and' between them.
C15_DeparseShape ==
    op = "deparse" =>
        LET sql == ret
            c == Len(arg.columns)
            n == Len(arg.quals)
            collen == IF c = 0 THEN 0 ELSE 2 * c - 1
            base == 4 + collen
        IN  /\ sql[1] = "select"
            /\ \A i \in 1..c :
                 /\ sql[2 * i] = arg.columns[i]
                 /\ i < c => sql[2 * i + 1] = ", "
            /\ sql[2 + collen] = "from"
            /\ sql[3 + collen] = arg.options.table
            /\ Cardinality({i \in 1..Len(sql) : sql[i] = "and"})
                 = IF n = 0 THEN 0 ELSE n - 1
            /\ IF n = 0
               THEN Len(sql) = 3 + collen
               ELSE /\ Len(sql) = base + 4 * n - 1
                    /\ sql[base] = "where"
                    /\ \A j \in 1..n :
                         /\ SubSeq(sql, base + 4 * j - 3, base + 4 * j - 1)
                              = QualDeparse(arg.quals[j])
                         /\ j < n => sql[base + 4 * j] = "and"

C15_Witness ==
    /\ op = "deparse"
    /\ Len(arg.quals) = 2
    /\ ret = <<"select", "name", ", ", "age", "from", "people",
               "where", "age", ">", "30", "and", "name", "=", "'a'">>

\* C16: a Bool, I64, F64 or String cell written as insert writes it and read
\* back as iter_scan reads it is the same cell; a Bool is written as a UInt8,
\* and a UInt8 reads as Bool(true) when nonzero and Bool(false) when zero.
C16_RoundTrip ==
    /\ op = "write_read" =>
         /\ SameCell(ret, Some(arg.cell))
         /\ arg.cell.tag = "Bool" => reqs[1].ty = "UInt8"
    /\ op = "read" =>
         /\ unwrap(ret).tag = "Bool"
         /\ unwrap(ret).v = (arg.wire.v # 0)

C16_Witness ==
    /\ op = "read"
    /\ arg.wire.v = U8Max
    /\ unwrap(ret).v = TRUE

====
